---- MODULE Spec2Model ----
(***************************************************************************)
(* Model of lib_i2cadc: the LTC2309 ADC-board library (lib_i2cadc.c) and   *)
(* its command-line front end (lib_main.c).                                *)
(*                                                                         *)
(* C strings are sequences of character codes (ASCII); a C array index i   *)
(* is position i + 1 of the TLA+ sequence that models the array.  The I2C  *)
(* transport (lib_i2c: i2c_open, i2c_set_addr, i2c_read_word) and the      *)
(* kernel (close) are the environment: what they answer during one call    *)
(* of the library is drawn from a bounded family of bus behaviours.        *)
(***************************************************************************)
EXTENDS Integers, Sequences, FiniteSets, TLC

\* ------------------------------------------------------------------ bounds
\* At most this many chips misbehave during one library call.
MaxBad == 1
\* A misbehaving chip refuses at most this many address-selects in a row
\* (read_pin makes at most four attempts, so 4 covers "never answers").
MaxSelFail == 4
\* Pin numbers tried by the resolver checks run from -MaxNegPin to MaxPin.
MaxNegPin == 3
MaxPin == 43
\* Raw codes given to the converter run from 0 to MaxRaw.
MaxRaw == 4095

\* --------------------------------------------------------- chips and tables
CHIP_ADC0 == 0
CHIP_ADC1 == 1
CHIP_ADC2 == 2
CHIP_ADC3 == 3
CHIP_ADC4 == 4
CHIP_ADC5 == 5
NOT_USED == 6

\* ADC_I2C_ADDR[] = { 0x08, 0x09, 0x0A, 0x0B, 0x18, 0x19 }
ADC_I2C_ADDR == << 8, 9, 10, 11, 24, 25 >>

\* ADC_CH_ADDR[] = { 0x88, 0xC8, 0x98, 0xD8, 0xA8, 0xE8, 0xB8, 0xF8 }
ADC_CH_ADDR == << 136, 200, 152, 216, 168, 232, 184, 248 >>

\* struct pin_info without its display name, which no code path reads.
PI(n, a, c) == [pin_num |-> n, adc_idx |-> a, ch_idx |-> c]

HEADER_CON1 ==
    << PI( 0, NOT_USED, 0), PI( 1, CHIP_ADC0, 0), PI( 2, CHIP_ADC0, 1),
       PI( 3, CHIP_ADC1, 0), PI( 4, CHIP_ADC0, 2), PI( 5, CHIP_ADC1, 1),
       PI( 6, NOT_USED, 0), PI( 7, CHIP_ADC1, 2), PI( 8, CHIP_ADC1, 3),
       PI( 9, NOT_USED, 0), PI(10, CHIP_ADC1, 4), PI(11, CHIP_ADC1, 5),
       PI(12, CHIP_ADC1, 6), PI(13, CHIP_ADC1, 7), PI(14, NOT_USED, 0),
       PI(15, CHIP_ADC2, 0), PI(16, CHIP_ADC2, 1), PI(17, CHIP_ADC0, 3),
       PI(18, CHIP_ADC2, 2), PI(19, CHIP_ADC2, 3), PI(20, NOT_USED, 0),
       PI(21, CHIP_ADC2, 4), PI(22, CHIP_ADC2, 5), PI(23, CHIP_ADC2, 6),
       PI(24, CHIP_ADC2, 7), PI(25, NOT_USED, 0), PI(26, CHIP_ADC3, 0),
       PI(27, CHIP_ADC3, 1), PI(28, CHIP_ADC3, 2), PI(29, CHIP_ADC3, 3),
       PI(30, NOT_USED, 0), PI(31, CHIP_ADC3, 4), PI(32, CHIP_ADC3, 5),
       PI(33, CHIP_ADC3, 6), PI(34, NOT_USED, 0), PI(35, CHIP_ADC3, 7),
       PI(36, CHIP_ADC4, 0), PI(37, NOT_USED, 0), PI(38, CHIP_ADC0, 4),
       PI(39, NOT_USED, 0), PI(40, NOT_USED, 0) >>

HEADER_P3 ==
    << PI( 0, NOT_USED, 0), PI( 1, NOT_USED, 0), PI( 2, CHIP_ADC5, 0),
       PI( 3, CHIP_ADC5, 1), PI( 4, NOT_USED, 0), PI( 5, CHIP_ADC5, 2),
       PI( 6, CHIP_ADC5, 3), PI( 7, NOT_USED, 0), PI( 8, CHIP_ADC5, 4),
       PI( 9, CHIP_ADC5, 5), PI(10, NOT_USED, 0) >>

HEADER_P13 ==
    << PI( 0, NOT_USED, 0), PI( 1, NOT_USED, 0), PI( 2, CHIP_ADC4, 1),
       PI( 3, CHIP_ADC0, 5), PI( 4, CHIP_ADC4, 2), PI( 5, CHIP_ADC4, 3),
       PI( 6, CHIP_ADC4, 4), PI( 7, CHIP_ADC4, 5) >>

HEADER_P1_1 ==
    << PI( 0, NOT_USED, 0), PI( 1, CHIP_ADC0, 7), PI( 2, CHIP_ADC0, 6),
       PI( 3, CHIP_ADC0, 5), PI( 4, CHIP_ADC0, 4), PI( 5, CHIP_ADC0, 3),
       PI( 6, CHIP_ADC0, 2), PI( 7, CHIP_ADC0, 1), PI( 8, CHIP_ADC0, 0) >>

HEADER_P1_2 ==
    << PI( 0, NOT_USED, 0), PI( 1, CHIP_ADC1, 7), PI( 2, CHIP_ADC1, 6),
       PI( 3, CHIP_ADC1, 5), PI( 4, CHIP_ADC1, 4), PI( 5, CHIP_ADC1, 3),
       PI( 6, CHIP_ADC1, 2), PI( 7, CHIP_ADC1, 1), PI( 8, CHIP_ADC1, 0) >>

HEADER_P1_3 ==
    << PI( 0, NOT_USED, 0), PI( 1, CHIP_ADC2, 7), PI( 2, CHIP_ADC2, 6),
       PI( 3, CHIP_ADC2, 5), PI( 4, CHIP_ADC2, 4), PI( 5, CHIP_ADC2, 3),
       PI( 6, CHIP_ADC2, 2), PI( 7, CHIP_ADC2, 1), PI( 8, CHIP_ADC2, 0) >>

HEADER_P1_4 ==
    << PI( 0, NOT_USED, 0), PI( 1, CHIP_ADC3, 7), PI( 2, CHIP_ADC3, 6),
       PI( 3, CHIP_ADC3, 5), PI( 4, CHIP_ADC3, 4), PI( 5, CHIP_ADC3, 3),
       PI( 6, CHIP_ADC3, 2), PI( 7, CHIP_ADC3, 1), PI( 8, CHIP_ADC3, 0) >>

HEADER_P1_5 ==
    << PI( 0, NOT_USED, 0), PI( 1, CHIP_ADC4, 7), PI( 2, CHIP_ADC4, 6),
       PI( 3, CHIP_ADC4, 5), PI( 4, CHIP_ADC4, 4), PI( 5, CHIP_ADC4, 3),
       PI( 6, CHIP_ADC4, 2), PI( 7, CHIP_ADC4, 1), PI( 8, CHIP_ADC4, 0) >>

HEADER_P1_6 ==
    << PI( 0, NOT_USED, 0), PI( 1, CHIP_ADC5, 7), PI( 2, CHIP_ADC5, 6),
       PI( 3, CHIP_ADC5, 5), PI( 4, CHIP_ADC5, 4), PI( 5, CHIP_ADC5, 3),
       PI( 6, CHIP_ADC5, 2), PI( 7, CHIP_ADC5, 1), PI( 8, CHIP_ADC5, 0) >>

\* ARRARY_SIZE(x)
ARRARY_SIZE(x) == Len(x)

\* The nine header tables, by the identifier header_info gives each.
HeaderIds == { "CON1", "P3", "P13", "P1_1", "P1_2", "P1_3", "P1_4", "P1_5", "P1_6" }

Table(h) ==
    CASE h = "CON1" -> HEADER_CON1
      [] h = "P3"   -> HEADER_P3
      [] h = "P13"  -> HEADER_P13
      [] h = "P1_1" -> HEADER_P1_1
      [] h = "P1_2" -> HEADER_P1_2
      [] h = "P1_3" -> HEADER_P1_3
      [] h = "P1_4" -> HEADER_P1_4
      [] h = "P1_5" -> HEADER_P1_5
      [] h = "P1_6" -> HEADER_P1_6

\* ------------------------------------------------------------ C arithmetic
RECURSIVE Pow2(_)
Pow2(n) == IF n = 0 THEN 1 ELSE 2 * Pow2(n - 1)

\* The largest int (32 bits, two's complement).
INT_MAX == 2147483647

\* Conversion of an integer to int: values outside the range wrap by 2^32.
ToInt32(x) ==
    IF x > INT_MAX THEN ((x - INT_MAX) - INT_MAX) - 2
    ELSE IF x < (-INT_MAX) - 1 THEN ((x + INT_MAX) + INT_MAX) + 2
    ELSE x

\* Conversion of an int to unsigned short.
ToUShort(x) == x % Pow2(16)

\* C's integer division, which truncates toward zero.
CDiv(a, b) ==
    IF a >= 0 THEN a \div b ELSE -((-a) \div b)

\* x >> n and x << n on a non-negative int, x & (2^n - 1) as a remainder.
Shr(x, n) == x \div Pow2(n)
Shl(x, n) == ToInt32(x * Pow2(n))
LowBits(x, n) == x % Pow2(n)

\* x & 0xFF00 for a non-negative x.
AndFF00(x) == LowBits(x, 16) - LowBits(x, 8)

\* SWAP_WORD(x): the two masked halves share no bit, so | adds them.
SWAP_WORD(x) == LowBits(Shr(x, 8), 8) + AndFF00(Shl(x, 8))

ADC_REF_VOLTAGE == 5

ADC_WEIGHT_uV == (ADC_REF_VOLTAGE * 1000000) \div 4096

\* convert_to_mv with the weight rounded to the nearest microvolt (1221)
\* instead of truncated.
convert_to_mv_rounded(adc_value) ==
    LET volt == ToInt32(ToUShort(adc_value) * (ADC_WEIGHT_uV + 1))
    IN  CDiv(volt, 1000)

convert_to_mv(adc_value) ==
    LET volt == ToInt32(ToUShort(adc_value) * ADC_WEIGHT_uV)
    IN  CDiv(volt, 1000)

\* ------------------------------------------------------------- C strings
\* The character codes of the characters the inputs are written with.
AsciiTable ==
    { <<"C", 67>>, <<"O", 79>>, <<"N", 78>>, <<"P", 80>>, <<"X", 88>>,
      <<"Y", 89>>, <<"Z", 90>>, <<"c", 99>>, <<"o", 111>>, <<"n", 110>>,
      <<"p", 112>>, <<"x", 120>>, <<"y", 121>>, <<"z", 122>>, <<"0", 48>>, <<"1", 49>>, <<"2", 50>>, <<"3", 51>>,
      <<"4", 52>>, <<"5", 53>>, <<"6", 54>>, <<"7", 55>>, <<"8", 56>>,
      <<"9", 57>>, <<"_", 95>>, <<".", 46>>, <<"-", 45>>, <<"+", 43>>,
      <<" ", 32>> }

Ord(c) == (CHOOSE p \in AsciiTable : p[1] = c)[2]

\* A string literal, written as a tuple of one-character strings.
Str(t) == [i \in 1..Len(t) |-> Ord(t[i])]

\* The null pointer, where a char * is expected (no string holds a code -1).
NULL == << -1 >>

\* The character at C index i - 1, the terminating NUL past the end.
CharAt(s, i) == IF i <= Len(s) THEN s[i] ELSE 0

strlen(s) == Len(s)

\* strncmp(a, b, n) == 0: the first n characters agree, up to a NUL.
StrNEq(a, b, n) ==
    \A i \in 1..n :
        (\A j \in 1..(i - 1) : CharAt(a, j) # 0) => CharAt(a, i) = CharAt(b, i)

toupper(c) == IF c >= 97 /\ c <= 122 THEN c - 32 ELSE c

toupperstr(p) == [i \in 1..Len(p) |-> toupper(p[i])]

\* The number of leading characters of s that are (skip) or are not the
\* delimiter d.
RECURSIVE Span(_, _, _)
Span(s, d, skip) ==
    IF s = << >> \/ ((s[1] = d) # skip)
    THEN 0
    ELSE 1 + Span(Tail(s), d, skip)

\* strtok over the text left to scan, with a one-character delimiter set:
\* the token (NULL if none) and the text left for the next call.
strtok(s, d) ==
    LET from == SubSeq(s, Span(s, d, TRUE) + 1, Len(s))
        n    == Span(from, d, FALSE)
    IN  IF from = << >>
        THEN [tok |-> NULL, rest |-> << >>]
        ELSE [tok |-> SubSeq(from, 1, n), rest |-> SubSeq(from, n + 2, Len(from))]

isspace(c) == c = 32 \/ (c >= 9 /\ c <= 13)
isdigit(c) == c >= 48 /\ c <= 57

RECURSIVE Digits(_, _)
Digits(s, acc) ==
    IF s = << >> \/ ~isdigit(s[1])
    THEN acc
    ELSE Digits(Tail(s), ToInt32(acc * 10 + (s[1] - 48)))

RECURSIVE atoi(_)
atoi(s) ==
    IF s = << >> THEN 0
    ELSE IF isspace(s[1]) THEN atoi(Tail(s))
    ELSE IF s[1] = 45 THEN -Digits(Tail(s), 0)
    ELSE IF s[1] = 43 THEN Digits(Tail(s), 0)
    ELSE Digits(s, 0)

\* --------------------------------------------------------------- resolver
\* One branch of header_info, for the table named tab: a pointer into the
\* table (tab, C index idx) and the number of entries to read.
\* A branch of header_info that takes pin n to be the table's n-th entry,
\* counting from one (C index n - 1).
Branch_prev(tab, pin_no) ==
    LET size == ARRARY_SIZE(Table(tab))
        no   == IF pin_no < size THEN pin_no ELSE 0
    IN  [tab |-> tab,
         idx |-> IF no # 0 THEN no - 1 ELSE 1,
         cnt |-> IF no # 0 THEN 1 ELSE size - 1]

Branch(tab, pin_no) ==
    LET size == ARRARY_SIZE(Table(tab))
        no   == IF pin_no < size THEN pin_no ELSE 0
    IN  [tab |-> tab,
         idx |-> IF no # 0 THEN no ELSE 1,
         cnt |-> IF no # 0 THEN 1 ELSE size - 1]

header_info(h_name, pin_no) ==
    IF      StrNEq(Str(<<"C","O","N","1">>), h_name, 4) THEN Branch("CON1", pin_no)
    ELSE IF StrNEq(Str(<<"P","3">>),         h_name, 2) THEN Branch("P3", pin_no)
    ELSE IF StrNEq(Str(<<"P","1","3">>),     h_name, 3) THEN Branch("P13", pin_no)
    ELSE IF StrNEq(Str(<<"P","1","_","1">>), h_name, 4) THEN Branch("P1_1", pin_no)
    ELSE IF StrNEq(Str(<<"P","1","_","2">>), h_name, 4) THEN Branch("P1_2", pin_no)
    ELSE IF StrNEq(Str(<<"P","1","_","3">>), h_name, 4) THEN Branch("P1_3", pin_no)
    ELSE IF StrNEq(Str(<<"P","1","_","4">>), h_name, 4) THEN Branch("P1_4", pin_no)
    ELSE IF StrNEq(Str(<<"P","1","_","5">>), h_name, 4) THEN Branch("P1_5", pin_no)
    ELSE IF StrNEq(Str(<<"P","1","_","6">>), h_name, 4) THEN Branch("P1_6", pin_no)
    ELSE [tab |-> "CON1", idx |-> 0, cnt |-> 0]

\* Whether C indices idx .. idx + cnt - 1 all lie inside the table of p.
InTable(p) ==
    p.cnt = 0 \/ (p.idx >= 0 /\ p.idx + p.cnt <= ARRARY_SIZE(Table(p.tab)))

\* p[i] for a pointer p header_info returned (inside its table).
Entry(p, i) == Table(p.tab)[p.idx + i + 1]

\* ------------------------------------------------------------ the I2C bus
Chips == 0..(ARRARY_SIZE(ADC_I2C_ADDR) - 1)

\* The words a chip answers to the first and to the second read after a
\* select: 0xF0FF (code 4095), 0x3412 (code 0x123), 0x0080 (code 2048).
WordPairs == { <<61695, 13330>>, <<13330, 61695>>, <<128, 128>> }

\* What the bus does during one call of the library: the chips in bad refuse
\* the first k address-selects of every retry loop and, if rd, fail every
\* word-read; every other read answers w1 when it is the first read after a
\* select and w2 when it is the second.
BusStates ==
    { b \in { [bad |-> s, k |-> k, rd |-> rd, w1 |-> w[1], w2 |-> w[2]] :
                 s \in { x \in SUBSET Chips : Cardinality(x) <= MaxBad },
                 k \in 0..MaxSelFail,
                 rd \in BOOLEAN,
                 w \in WordPairs } :
        (b.bad = {}) <=> (b.k = 0 /\ ~b.rd) }

\* i2c_set_addr on attempt number n of a retry loop: 0, or non-zero when the
\* descriptor is not the open bus (live) or the chip refuses.
i2c_set_addr(live, b, chip, n) ==
    IF ~live \/ (chip \in b.bad /\ n <= b.k) THEN -1 ELSE 0

\* i2c_read_word, the m-th read after a select: a word, or a negative error.
i2c_read_word(live, b, chip, m) ==
    IF ~live \/ (chip \in b.bad /\ b.rd)
    THEN -1
    ELSE IF m = 1 THEN b.w1 ELSE b.w2

\* One transport call as the bus saw it.
BusOp(op, arg, res) == [op |-> op, arg |-> arg, res |-> res]

\* ----------------------------------------------------------- read_pin
\* while (i2c_set_addr(...) && retry--) usleep(100);  from attempt n on:
\* the value retry is left with and the number of attempts made.
RECURSIVE SelLoop(_, _, _, _, _)
SelLoop(live, b, chip, retry, n) ==
    IF i2c_set_addr(live, b, chip, n) # 0
    THEN IF retry # 0
         THEN SelLoop(live, b, chip, retry - 1, n + 1)
         ELSE [retry |-> retry - 1, n |-> n]
    ELSE [retry |-> retry, n |-> n]

\* The 12-bit code in a word the bus returned (a failed read counts as 0).
RawCode(read_val) ==
    LET v == IF read_val < 0 THEN 0 ELSE read_val
    IN  LowBits(Shr(SWAP_WORD(v), 4), 12)

\* read_pin without the early return for NOT_USED: index 6 runs off
\* ADC_I2C_ADDR into the byte that follows it (ADC_CH_ADDR[0]), an address no
\* chip of the board refuses.
read_pin_nocheck(live, b, info) ==
    LET chip == info.adc_idx
        addr == (ADC_I2C_ADDR \o ADC_CH_ADDR)[chip + 1]
        cmd  == ADC_CH_ADDR[info.ch_idx + 1]
        loop == SelLoop(live, b, chip, 3, 1)
        sels == [i \in 1..loop.n |->
                   BusOp("set_addr", addr, i2c_set_addr(live, b, chip, i))]
        r1   == i2c_read_word(live, b, chip, 1)
        r2   == i2c_read_word(live, b, chip, 2)
    IN  IF loop.retry # 0
        THEN [val |-> RawCode(r2),
              ops |-> sels \o << BusOp("read_word", cmd, r1),
                                 BusOp("read_word", cmd, r2) >>]
        ELSE [val |-> 0, ops |-> sels]

read_pin(live, b, info) ==
    IF info.adc_idx = NOT_USED
    THEN [val |-> 0, ops |-> << >>]
    ELSE LET chip == info.adc_idx
             addr == ADC_I2C_ADDR[chip + 1]
             cmd  == ADC_CH_ADDR[info.ch_idx + 1]
             loop == SelLoop(live, b, chip, 3, 1)
             sels == [i \in 1..loop.n |->
                        BusOp("set_addr", addr, i2c_set_addr(live, b, chip, i))]
             r1   == i2c_read_word(live, b, chip, 1)
             r2   == i2c_read_word(live, b, chip, 2)
         IN  IF loop.retry # 0
             THEN [val |-> RawCode(r2),
                   ops |-> sels \o << BusOp("read_word", cmd, r1),
                                      BusOp("read_word", cmd, r2) >>]
             ELSE [val |-> 0, ops |-> sels]

\* --------------------------------------------------------- check_devices
\* The loop of check_devices from chip i on: the result and the bus calls.
RECURSIVE CheckFrom(_, _, _)
CheckFrom(live, b, i) ==
    IF i >= ARRARY_SIZE(ADC_I2C_ADDR)
    THEN [ok |-> 1, ops |-> << >>]
    ELSE LET addr == ADC_I2C_ADDR[i + 1]
             sel  == BusOp("set_addr", addr, i2c_set_addr(live, b, i, 1))
             r    == i2c_read_word(live, b, i, 1)
             rd   == BusOp("read_word", addr, r)
         IN  IF r < 0
             THEN [ok |-> 0, ops |-> << sel, rd >>]
             ELSE LET more == CheckFrom(live, b, i + 1)
                  IN  [ok |-> more.ok, ops |-> << sel, rd >> \o more.ops]

check_devices(live, b) == CheckFrom(live, b, 0)

\* --------------------------------------------------------- adc_board_init
\* The descriptor open() hands out: the lowest one not in use.
LowestFree(fds) == CHOOSE n \in 0..(Cardinality(fds)) :
                      n \notin fds /\ \A m \in 0..(n - 1) : m \in fds

\* i2c_open: a new descriptor, or a negative value when the node cannot be
\* opened.
i2c_open(fds, canOpen) == IF canOpen THEN LowestFree(fds) ELSE -1

\* adc_board_init that returns -1 after a failed check without close(fd).
adc_board_init_noclose(fds, canOpen, b) ==
    LET fd == i2c_open(fds, canOpen)
    IN  IF fd < 0
        THEN [ret |-> 0, got |-> fd, closed |-> << >>, ops |-> << >>]
        ELSE LET chk == check_devices(TRUE, b)
             IN  IF chk.ok # 0
                 THEN [ret |-> fd, got |-> fd, closed |-> << >>, ops |-> chk.ops]
                 ELSE [ret |-> -1, got |-> fd, closed |-> << >>, ops |-> chk.ops]

\* adc_board_init with the descriptors fds open: what it returns, the
\* descriptor i2c_open gave, the descriptors it closed and its bus calls.
adc_board_init(fds, canOpen, b) ==
    LET fd == i2c_open(fds, canOpen)
    IN  IF fd < 0
        THEN [ret |-> 0, got |-> fd, closed |-> << >>, ops |-> << >>]
        ELSE LET chk == check_devices(TRUE, b)
             IN  IF chk.ok # 0
                 THEN [ret |-> fd, got |-> fd, closed |-> << >>, ops |-> chk.ops]
                 ELSE [ret |-> -1, got |-> fd, closed |-> << fd >>, ops |-> chk.ops]

\* --------------------------------------------------------- adc_board_read
\* sizeof(str) of adc_board_read's copy of the header name.
STR_SIZE == 10

\* The pointer header_info returns when no header matches.
NoPin == [tab |-> "CON1", idx |-> 0, cnt |-> 0]

\* What a call of adc_board_read leaves behind: the value returned, whether
\* the process died instead (crashed), whether the run left defined
\* behaviour (ub), what header_info gave (pin_no, p), the elements written
\* to read_value (out_values, from index 0 on), whether *cnt was written and
\* with what, and per pin read the table entry, the bus calls and the code.
ReadResult(ret, pin_no, p, pins) ==
    [ret         |-> ret,
     crashed     |-> FALSE,
     ub          |-> FALSE,
     pin_no      |-> pin_no,
     p           |-> p,
     out_values  |-> [i \in 1..Len(pins) |-> convert_to_mv(pins[i].raw)],
     cnt_written |-> Len(pins) > 0,
     out_count   |-> Len(pins),
     pins        |-> pins]

\* The loop of adc_board_read over the entries infos.
ReadPins(live, b, infos) ==
    [i \in 1..Len(infos) |->
        LET r == read_pin(live, b, infos[i])
        IN  [info |-> infos[i], ops |-> r.ops, raw |-> r.val]]

\* A pin_info-sized piece of memory outside the tables, read through a
\* pointer that left its table.
GarbageInfo == { PI(0, NOT_USED, 0), PI(0, CHIP_ADC0, 0), PI(255, CHIP_ADC5, 7) }

\* The process is killed (SIGSEGV, stack protector).
Crash(pin_no, p) ==
    [ReadResult(0, pin_no, p, << >>) EXCEPT !.crashed = TRUE, !.ub = TRUE]

\* Outcomes of a run that overran str or passed NULL to strncmp.
WildOutcomes ==
    { Crash(0, NoPin),
      [ReadResult(0, 0, NoPin, << >>) EXCEPT !.ub = TRUE] }

\* Outcomes of reading one entry through a pointer outside its table.
StrayOutcomes(live, b, pin_no, p) ==
    { Crash(pin_no, p) } \cup
    { [ReadResult(1, pin_no, p, ReadPins(live, b, << g >>)) EXCEPT !.ub = TRUE] :
        g \in GarbageInfo }

\* adc_board_read(fd, h_name, read_value, cnt): the set of its outcomes (one
\* outcome wherever the C code's behaviour is defined).
adc_board_read(live, fd, h_name, b) ==
    IF h_name = NULL \/ fd = 0
    THEN { ReadResult(-1, 0, NoPin, << >>) }
    ELSE IF strlen(h_name) >= STR_SIZE
    THEN WildOutcomes
    ELSE LET t1      == strtok(h_name, 46)
             p_name  == IF t1.tok # NULL THEN toupperstr(t1.tok) ELSE NULL
             t2      == strtok(t1.rest, 32)
             pin_no  == IF t2.tok # NULL THEN atoi(t2.tok) ELSE 0
         IN  IF p_name = NULL
             THEN WildOutcomes
             ELSE LET p == header_info(p_name, pin_no)
                  IN  IF p.cnt = 0
                      THEN { ReadResult(0, pin_no, p, << >>) }
                      ELSE IF ~InTable(p)
                      THEN StrayOutcomes(live, b, pin_no, p)
                      ELSE { ReadResult(1, pin_no, p,
                                ReadPins(live, b,
                                    [i \in 1..p.cnt |-> Entry(p, i - 1)])) }

\* ------------------------------------------------------------ the inputs
\* The header names as the caller writes them.
HeaderLit(h) ==
    CASE h = "CON1" -> Str(<<"C","O","N","1">>)
      [] h = "P3"   -> Str(<<"P","3">>)
      [] h = "P13"  -> Str(<<"P","1","3">>)
      [] h = "P1_1" -> Str(<<"P","1","_","1">>)
      [] h = "P1_2" -> Str(<<"P","1","_","2">>)
      [] h = "P1_3" -> Str(<<"P","1","_","3">>)
      [] h = "P1_4" -> Str(<<"P","1","_","4">>)
      [] h = "P1_5" -> Str(<<"P","1","_","5">>)
      [] h = "P1_6" -> Str(<<"P","1","_","6">>)

\* The decimal digits of n, with a minus sign when n < 0.
RECURSIVE DecNat(_)
DecNat(n) == IF n < 10 THEN << 48 + n >> ELSE DecNat(n \div 10) \o << 48 + (n % 10) >>

Dec(n) == IF n < 0 THEN << 45 >> \o DecNat(-n) ELSE DecNat(n)

\* "<header>.<n>"
PinName(h, n) == HeaderLit(h) \o << 46 >> \o Dec(n)

LastPin(h) == ARRARY_SIZE(Table(h)) - 1

\* Header parts that match none of the nine prefixes.
UnknownTokens ==
    { Str(<<"X","Y","Z">>), Str(<<"P","1">>), Str(<<"P","1","_","7">>),
      Str(<<"P","2">>), Str(<<"C","O","N">>), Str(<<"c","o","n","1">>) }

\* Names given to adc_board_read: whole headers, first, last and
\* past-the-last pins, unwired pins, lower case, signs and blanks, names of
\* no header, the empty name, and a name as long as the copy buffer.
Names ==
    { HeaderLit(h) : h \in HeaderIds }
    \cup { PinName(h, n) : h \in HeaderIds, n \in {0, 1} }
    \cup { PinName(h, LastPin(h) + d) : h \in HeaderIds, d \in {0, 1} }
    \cup { PinName(h, -n) : h \in {"CON1", "P13"}, n \in 1..MaxNegPin }
    \cup { Str(<<"c","o","n","1",".","5">>), Str(<<"p","3",".","2">>),
           Str(<<"C","O","N","1",".","6">>), Str(<<"C","O","N","1",".","1","7">>),
           Str(<<"C","O","N","1",".","+","2">>), Str(<<"C","O","N","1","."," ","7">>),
           Str(<<"C","O","N","1","0">>), Str(<<".","P","3">>),
           Str(<<"X","Y","Z">>), Str(<<"P","1">>), Str(<<"P","1","_","7">>),
           Str(<<"P","2",".","1">>), Str(<<"x","y","z",".","1">>),
           << >>, Str(<<".">>),
           Str(<<"C","O","N","1",".","0","0","0","0","1">>),
           Str(<<"X","Y","Z","X","Y","Z","X","Y","Z","X">>) }

NameArgs == Names \cup { NULL }

\* The command lines of lib_main: -v given or not, -p <name> given or not.
OptSet ==
    { [view |-> v, pin |-> n] :
        v \in BOOLEAN,
        n \in { NULL, HeaderLit("CON1"), HeaderLit("P13"), PinName("CON1", 1),
                PinName("P3", 1), PinName("P1_6", 8), PinName("CON1", -1),
                Str(<<"X","Y","Z">>), Str(<<"p","3",".","2">>) } }

\* ------------------------------------------------------------------ state
VARIABLES
    pc,      \* where the caller is
    fd,      \* the handle the caller holds (what adc_board_init returned)
    fds,     \* the descriptors open in the process
    i2c,     \* the descriptor i2c_open returned, -1 if none
    closes,  \* the descriptors passed to close(), in order
    stray,   \* a bus call was made on a descriptor that is not the open bus
    bus,     \* how the bus behaved during the latest call
    opts,    \* lib_main's options
    call     \* the latest call and what it did

vars == << pc, fd, fds, i2c, closes, stray, bus, opts, call >>

Healthy == [bad |-> {}, k |-> 0, rd |-> FALSE, w1 |-> 128, w2 |-> 128]

NoOpts == [view |-> FALSE, pin |-> NULL]

NoCall == [fn |-> "none"]

\* stdin, stdout and stderr are open when the process starts.
StdFds == { 0, 1, 2 }

Start(p, o) ==
    /\ pc = p
    /\ fd = 0
    /\ fds = StdFds
    /\ i2c = -1
    /\ closes = << >>
    /\ stray = FALSE
    /\ bus = Healthy
    /\ opts = o
    /\ call = NoCall

\* Whether descriptor h is the open bus.
Live(h) == h \in fds /\ h = i2c

\* Whether a call of adc_board_read touched the bus.
UsedBus(r) == \E i \in 1..Len(r.pins) : r.pins[i].ops # << >>

\* The effect of adc_board_init on the process.
DoInit(canOpen, b) ==
    LET r == adc_board_init(fds, canOpen, b)
    IN  /\ fd' = r.ret
        /\ i2c' = r.got
        /\ fds' = (fds \cup (IF r.got >= 0 THEN { r.got } ELSE {}))
                    \ { r.closed[i] : i \in 1..Len(r.closed) }
        /\ closes' = closes \o r.closed
        /\ bus' = b
        /\ call' = [fn |-> "adc_board_init", canOpen |-> canOpen, res |-> r]
        /\ UNCHANGED << stray, opts >>

\* The effect of one adc_board_read(h, name, ...) on the process.
DoRead(h, name, b, next_pc) ==
    \E r \in adc_board_read(Live(h), h, name, b) :
        /\ call' = [fn |-> "adc_board_read", fd |-> h, h_name |-> name,
                    live |-> Live(h), res |-> r]
        /\ bus' = b
        /\ stray' = (stray \/ (~Live(h) /\ UsedBus(r)))
        /\ pc' = IF r.crashed THEN "crashed" ELSE next_pc
        /\ UNCHANGED << fd, fds, i2c, closes, opts >>

\* When a call has returned and the caller moves on, the call's record (the
\* output buffers and the bus log, locals of the finished call) is dropped.
Resume(p) ==
    CASE p = "inited"   -> "ready"
      [] p = "idle"     -> "ready"
      [] p = "m_inited" -> "view"
      [] p = "m_viewed" -> "pin"
      [] p = "m_pinned" -> "close"

Return ==
    /\ pc \in { "inited", "idle", "m_inited", "m_viewed", "m_pinned" }
    /\ pc' = Resume(pc)
    /\ bus' = Healthy
    /\ call' = NoCall
    /\ UNCHANGED << fd, fds, i2c, closes, stray, opts >>

\* ------------------------------------------- a client of the library (Spec)
Init == Start("start", NoOpts)

Client_init ==
    /\ pc = "start"
    /\ \E canOpen \in BOOLEAN, b \in BusStates : DoInit(canOpen, b)
    /\ pc' = "inited"

\* The client reads with the handle it was given, with 0 or with -1.
Client_read ==
    /\ pc = "ready"
    /\ \E h \in { fd, 0, -1 }, name \in NameArgs, b \in BusStates :
          DoRead(h, name, b, "idle")

Next == Client_init \/ Client_read \/ Return

Spec == Init /\ [][Next]_vars

\* ------------------------------------------------ lib_main.c (SpecMain)
InitMain == \E o \in OptSet : Start("start", o)

\* if ((fd = adc_board_init (OPT_DEVICE_NODE)) < 0) return -1;
Main_init ==
    /\ pc = "start"
    /\ \E canOpen \in BOOLEAN, b \in BusStates : DoInit(canOpen, b)
    /\ pc' = IF fd' < 0 THEN "exit" ELSE "m_inited"

\* The order in which print_all_info prints the headers.
AllOrder == << "CON1", "P3", "P13", "P1_1", "P1_2", "P1_3", "P1_4", "P1_5", "P1_6" >>

\* print_all_info(fd): nine calls of print_pin_info, each one call of
\* adc_board_read (whose behaviour is defined for these nine names).
print_all_info(live, h, b) ==
    [i \in 1..Len(AllOrder) |->
        CHOOSE r \in adc_board_read(live, h, HeaderLit(AllOrder[i]), b) : TRUE]

\* if (OPT_VIEW_INFO) print_all_info(fd);
Main_view ==
    /\ pc = "view"
    /\ pc' = "m_viewed"
    /\ IF opts.view
       THEN \E b \in BusStates :
              LET rs == print_all_info(Live(fd), fd, b)
              IN  /\ call' = [fn |-> "print_all_info", fd |-> fd,
                              live |-> Live(fd), res |-> rs]
                  /\ bus' = b
                  /\ stray' = (stray \/ (~Live(fd) /\ \E i \in 1..Len(rs) : UsedBus(rs[i])))
       ELSE UNCHANGED << call, bus, stray >>
    /\ UNCHANGED << fd, fds, i2c, closes, opts >>

\* if (OPT_PIN_NAME) print_pin_info(fd, OPT_PIN_NAME);
Main_pin ==
    /\ pc = "pin"
    /\ IF opts.pin # NULL
       THEN \E b \in BusStates : DoRead(fd, opts.pin, b, "m_pinned")
       ELSE /\ pc' = "m_pinned"
            /\ UNCHANGED << fd, fds, i2c, closes, stray, bus, opts, call >>

\* close(fd); return 0;
Main_close ==
    /\ pc = "close"
    /\ pc' = "exit"
    /\ closes' = Append(closes, fd)
    /\ fds' = fds \ { fd }
    /\ call' = [fn |-> "close", fd |-> fd]
    /\ UNCHANGED << fd, i2c, stray, bus, opts >>

NextMain == Main_init \/ Main_view \/ Main_pin \/ Main_close \/ Return

SpecMain == InitMain /\ [][NextMain]_vars

\* ------------------------------- the pure functions on their own (SpecPure)
InitPure == Start("pure", NoOpts)

\* header_info on a header part and a pin number.
Resolve ==
    /\ pc = "pure"
    /\ \E h \in { HeaderLit(x) : x \in HeaderIds } \cup UnknownTokens,
          n \in (-MaxNegPin)..MaxPin :
          call' = [fn |-> "header_info", h_name |-> h, pin_no |-> n,
                   res |-> header_info(h, n)]
    /\ pc' = "applied"
    /\ UNCHANGED << fd, fds, i2c, closes, stray, bus, opts >>

\* convert_to_mv on a raw code.
Convert ==
    /\ pc = "pure"
    /\ \E r \in 0..MaxRaw :
          call' = [fn |-> "convert_to_mv", adc_value |-> r, res |-> convert_to_mv(r)]
    /\ pc' = "applied"
    /\ UNCHANGED << fd, fds, i2c, closes, stray, bus, opts >>

NextPure == Resolve \/ Convert

SpecPure == InitPure /\ [][NextPure]_vars

\* ------------------------------------------------------------------ claims
IsRead == call.fn = "adc_board_read"
IsInit == call.fn = "adc_board_init"

\* The address-selects and the word-reads among the bus calls ops.
Selects(ops) == { i \in 1..Len(ops) : ops[i].op = "set_addr" }
Reads(ops) == { i \in 1..Len(ops) : ops[i].op = "read_word" }

\* Nothing was written to read_value or to *cnt.
Unwritten(r) == r.out_values = << >> /\ ~r.cnt_written

\* C1: a wired pin is selected at most 3 times, and when every select failed
\* no word is read and the pin's code and reading are 0.
C1_RetryExhausted ==
    (IsRead /\ call.live) =>
        \A i \in 1..Len(call.res.pins) :
            LET pin == call.res.pins[i]
            IN  pin.info.adc_idx # NOT_USED =>
                  /\ Cardinality(Selects(pin.ops)) <= 3
                  /\ (\A j \in Selects(pin.ops) : pin.ops[j].res # 0) =>
                        /\ Reads(pin.ops) = {}
                        /\ pin.raw = 0
                        /\ call.res.out_values[i] = 0

\* C2: when i2c_open fails adc_board_init returns -1 without touching the
\* bus, and main's test fd < 0 ends the program.
C2_OpenFailure ==
    (IsInit /\ ~call.canOpen) =>
        /\ call.res.ret = -1
        /\ call.res.ops = << >>
        /\ pc = "exit"

\* The chips that do not answer a word-read during the latest call.
DeadChips == IF bus.rd THEN bus.bad ELSE {}

\* C3: the presence check visits the chips in table order, one select then
\* one read each; if any chip does not answer, adc_board_init closes the
\* descriptor it opened and returns -1; it returns the descriptor, still
\* open, only when all six chips answered.
C3_PresenceCheck ==
    (IsInit /\ call.canOpen) =>
        LET r == call.res
            n == Len(r.ops) \div 2
        IN  /\ Len(r.ops) = 2 * n
            /\ n <= ARRARY_SIZE(ADC_I2C_ADDR)
            /\ \A j \in 1..n :
                  /\ r.ops[2 * j - 1].op = "set_addr"
                  /\ r.ops[2 * j - 1].arg = ADC_I2C_ADDR[j]
                  /\ r.ops[2 * j].op = "read_word"
                  /\ r.ops[2 * j].arg = ADC_I2C_ADDR[j]
            /\ DeadChips # {} =>
                  /\ r.ret = -1
                  /\ closes = << r.got >>
                  /\ r.got \notin fds
            /\ r.ret # -1 =>
                  /\ r.ret = r.got
                  /\ r.got \in fds
                  /\ closes = << >>
                  /\ n = ARRARY_SIZE(ADC_I2C_ADDR)
                  /\ \A j \in 1..n : r.ops[2 * j].res >= 0
            /\ DeadChips = {} => r.ret = r.got

\* The last chip of the table is the only one that does not answer.
C3_Witness ==
    /\ IsInit
    /\ call.canOpen
    /\ DeadChips = { CHIP_ADC5 }
    /\ Len(call.res.ops) = 2 * ARRARY_SIZE(ADC_I2C_ADDR)
    /\ call.res.ret = -1
    /\ closes = << call.res.got >>

\* C4: for a pin number that is 0, negative or past the header's last pin,
\* the whole header is read: entries 1..len-1 in order, len-1 readings, and
\* nothing outside the table is touched (stated of the calls that return).
C4_WholeHeader ==
    (/\ IsRead
     /\ call.live
     /\ ~call.res.crashed
     /\ call.res.p.cnt # 0
     /\ (call.res.pin_no <= 0 \/ call.res.pin_no > LastPin(call.res.p.tab))) =>
        LET r == call.res
            last == LastPin(r.p.tab)
        IN  /\ InTable(r.p)
            /\ r.ret = 1
            /\ r.p.idx = 1
            /\ r.p.cnt = last
            /\ r.out_count = last
            /\ Len(r.out_values) = last
            /\ Len(r.pins) = last
            /\ \A i \in 1..Len(r.pins) : r.pins[i].info = Table(r.p.tab)[i + 1]

\* C5: for a header and a pin number from 1 to the header's last pin,
\* header_info returns one entry, the one whose pin_num is that number.
C5_SinglePin ==
    \A h \in HeaderIds :
        (/\ call.fn = "header_info"
         /\ call.h_name = HeaderLit(h)
         /\ call.pin_no >= 1
         /\ call.pin_no <= LastPin(h)) =>
            /\ call.res.tab = h
            /\ call.res.cnt = 1
            /\ InTable(call.res)
            /\ Entry(call.res, 0).pin_num = call.pin_no

\* The last pin of the 40-pin header.
C5_Witness ==
    /\ call.fn = "header_info"
    /\ call.h_name = HeaderLit("CON1")
    /\ call.pin_no = LastPin("CON1")
    /\ call.res.cnt = 1
    /\ Entry(call.res, 0).pin_num = 40

\* C6: with a null name or a handle that is zero or negative adc_board_read
\* returns -1, makes no bus call and writes nothing.
C6_InvalidArgs ==
    (IsRead /\ ~call.res.ub /\ (call.h_name = NULL \/ call.fd <= 0)) =>
        /\ call.res.ret = -1
        /\ ~UsedBus(call.res)
        /\ Unwritten(call.res)

\* The header part of a name (its text before the first '.') begins with
\* none of the nine header names, whatever the case of its letters.
NoHeader(name) ==
    LET t == strtok(name, 46).tok
    IN  \/ t = NULL
        \/ \A h \in HeaderIds :
              LET lit == HeaderLit(h)
              IN  \/ Len(t) < Len(lit)
                  \/ toupperstr(SubSeq(t, 1, Len(lit))) # lit

\* C7: for any name (the empty one too) of no known header and the open
\* bus handle, adc_board_read returns 0, makes no bus call, writes nothing.
C7_UnknownHeader ==
    (IsRead /\ call.live /\ call.h_name # NULL /\ NoHeader(call.h_name)) =>
        /\ ~call.res.crashed
        /\ ~call.res.ub
        /\ call.res.ret = 0
        /\ call.res.p.cnt = 0
        /\ ~UsedBus(call.res)
        /\ Unwritten(call.res)

C9_Unwired ==
    IsRead =>
        \A i \in 1..Len(call.res.pins) :
            call.res.pins[i].info.adc_idx = NOT_USED =>
                /\ call.res.out_values[i] = 0
                /\ call.res.pins[i].ops = << >>

\* A whole-header read on the open bus with an unwired pin next to pins that
\* read something, one of them on a chip that refuses its selects.
C9_Witness ==
    /\ IsRead
    /\ call.live
    /\ ~call.res.ub
    /\ bus.bad # {}
    /\ \E i, j, k \in 1..Len(call.res.pins) :
          /\ call.res.pins[i].info.adc_idx = NOT_USED
          /\ call.res.out_values[i] = 0
          /\ call.res.out_values[j] # 0
          /\ call.res.pins[k].info.adc_idx \in bus.bad

\* C10: close is called only on the descriptor i2c_open returned and at
\* most once, no bus call is made on anything but the open bus, and a run
\* that ends has closed the descriptor exactly once.
C10_HandleLifecycle ==
    /\ \A i \in 1..Len(closes) : i2c >= 0 /\ closes[i] = i2c
    /\ Len(closes) <= 1
    /\ ~stray
    /\ (pc = "exit" /\ i2c >= 0) => closes = << i2c >>

\* C11: when a select for a wired pin succeeds, exactly two words are read,
\* both after that select and both with the pin's channel command byte, and
\* the pin's code is computed from the second word alone.
C11_TwoReads ==
    (IsRead /\ call.live /\ ~call.res.ub) =>
        \A i \in 1..Len(call.res.pins) :
            LET pin == call.res.pins[i]
                ok  == { j \in Selects(pin.ops) : pin.ops[j].res = 0 }
                rds == Reads(pin.ops)
            IN  (pin.info.adc_idx # NOT_USED /\ ok # {}) =>
                  /\ Cardinality(rds) = 2
                  /\ \A j \in rds :
                        /\ \A m \in ok : m < j
                        /\ pin.ops[j].arg = ADC_CH_ADDR[pin.info.ch_idx + 1]
                  /\ \A j \in rds :
                        (\A m \in rds : m <= j) => pin.raw = RawCode(pin.ops[j].res)

\* The latest call read a whole header on the open bus.
WholeHeaderRead ==
    /\ IsRead
    /\ call.live
    /\ ~call.res.ub
    /\ call.res.p.cnt > 1

\* The pin's chip did not serve the read: every select was refused, or the
\* word-read that gives the code failed.
Unavailable(pin) ==
    /\ pin.info.adc_idx # NOT_USED
    /\ \/ \A j \in Selects(pin.ops) : pin.ops[j].res # 0
       \/ \E j \in Reads(pin.ops) :
             (\A m \in Reads(pin.ops) : m <= j) /\ pin.ops[j].res < 0

\* The bus of the latest call with no chip misbehaving.
Undisturbed == [bus EXCEPT !.bad = {}, !.k = 0, !.rd = FALSE]

\* C12: a whole-header read goes through every pin in order whatever fails
\* on the bus, returns 1 with len-1 readings; a pin whose chip was
\* unavailable reads 0 mV and the pins of the other chips read what they
\* read when no chip fails.
C12_BatchContinues ==
    WholeHeaderRead =>
        LET r    == call.res
            last == LastPin(r.p.tab)
        IN  /\ r.ret = 1
            /\ r.cnt_written
            /\ r.out_count = last
            /\ Len(r.out_values) = last
            /\ Len(r.pins) = last
            /\ \A i \in 1..Len(r.pins) :
                  /\ r.pins[i].info = Table(r.p.tab)[i + 1]
                  /\ Unavailable(r.pins[i]) => r.out_values[i] = 0
                  /\ r.pins[i].info.adc_idx \notin bus.bad =>
                        r.out_values[i] =
                            convert_to_mv(read_pin(TRUE, Undisturbed, r.pins[i].info).val)

====
